---- MODULE Spec2Model ----
(***************************************************************************)
(* The transcription job lifecycle of video-tools: a progress record per   *)
(* job (ProgressStore), the orchestrator that checkpoints it around the    *)
(* Whisper and the suggestion engine calls, and the recovery utility that  *)
(* rebuilds an analysis from the last checkpoint; and the web page in      *)
(* front of it: the uploader, the application state around an upload       *)
(* request, and the panel that regenerates suggestions.                    *)
(***************************************************************************)
EXTENDS Integers, Sequences, FiniteSets, TLC

\* ------------------------------------------------------------------ bounds

MaxJobs == 2         \* job ids; the pipelines that run side by side
MaxUploads == 1      \* jobs submitted while the recovery utility is used
MaxTime == 1         \* the clock runs 0..MaxTime
MaxRecoveries == 2   \* recovered analyses the recovery utility may write

JobIds == 1..MaxJobs
Uploads == 1..MaxUploads

\* ------------------------------------------------------------- data model

\* An optional field: <<>> when absent (null), <<v>> when present.
None == <<>>
Some(v) == <<v>>
IsPresent(o) == o # <<>>

\* The stages of a job, in order.
Stages == <<"initializing", "extracting_audio", "transcribing",
            "transcription_complete", "complete">>

StageRank(stage) == CHOOSE i \in 1..Len(Stages) : Stages[i] = stage

\* "MM:SS" of a start time in seconds, kept as the pair it is printed from.
FormatTimestamp(seconds) == <<seconds \div 60, seconds % 60>>

\* What the transcription engine may return: a silent video (no segment),
\* or three segments, the last one starting after the first minute.
Seg(t, s, e) == [text |-> t, start |-> s, end |-> e]

RawResults ==
  { [segments |-> <<>>, language |-> "es", duration |-> 0, text |-> ""],
    [segments |-> <<Seg("a", 0, 5), Seg("b", 5, 65), Seg("c", 65, 70)>>,
     language |-> "es", duration |-> 70, text |-> "abc"] }

\* Step 6's bucketing: one formatted segment per raw segment, in order.
FormatSegments(raw) ==
  [i \in 1..Len(raw.segments) |->
     [timestamp |-> FormatTimestamp(raw.segments[i].start),
      text |-> raw.segments[i].text,
      startSeconds |-> raw.segments[i].start,
      endSeconds |-> raw.segments[i].end]]

SuggestionErrors == {"QuotaExceeded", "AuthError", "EngineError"}

\* The placeholder bundle substituted when the suggestion engine fails.
DefaultSuggestions ==
  [titles |-> <<>>, description |-> "", thumbnailPrompt |-> "",
   highlights |-> <<>>, actionItems |-> <<>>]

\* What the suggestion engine returns on success for a transcript.
EngineSuggestions(segments) ==
  [titles |-> <<"title">>, description |-> "description",
   thumbnailPrompt |-> "thumbnail", highlights |-> segments,
   actionItems |-> <<>>]

OriginalFilename(j) == "video.mp4"
SourcePath(j) == "uploads/video.mp4"

\* ------------------------------------------------------- strings and files

\* A string of the frontend is the sequence of its characters.
UpperCase == <<"A", "B", "C", "D", "E", "F", "G", "H", "I", "J", "K", "L", "M",
               "N", "O", "P", "Q", "R", "S", "T", "U", "V", "W", "X", "Y", "Z">>
LowerCase == <<"a", "b", "c", "d", "e", "f", "g", "h", "i", "j", "k", "l", "m",
               "n", "o", "p", "q", "r", "s", "t", "u", "v", "w", "x", "y", "z">>

\* String.prototype.toLowerCase.
ToLowerCase(str) ==
  [i \in 1..Len(str) |->
     IF \E k \in 1..Len(UpperCase) : UpperCase[k] = str[i]
     THEN LowerCase[CHOOSE k \in 1..Len(UpperCase) : UpperCase[k] = str[i]]
     ELSE str[i]]

WhiteSpace == {" ", "\t", "\n"}

\* String.prototype.trim: the white space at both ends is removed.
Trim(str) ==
  LET inked == {i \in 1..Len(str) : str[i] \notin WhiteSpace}
  IN IF inked = {} THEN <<>>
     ELSE SubSeq(str, CHOOSE i \in inked : \A k \in inked : i <= k,
                      CHOOSE i \in inked : \A k \in inked : k <= i)

\* name.split('.').pop(): the text after the last '.', and the whole name
\* when it holds no '.'.
SplitPop(name) ==
  LET dots == {i \in 1..Len(name) : name[i] = "."}
  IN IF dots = {} THEN name
     ELSE SubSeq(name, (CHOOSE i \in dots : \A k \in dots : k <= i) + 1,
                 Len(name))

allowedExtensions ==
  { <<".", "m", "p", "4">>, <<".", "a", "v", "i">>, <<".", "m", "o", "v">>,
    <<".", "m", "k", "v">>, <<".", "w", "e", "b", "m">>,
    <<".", "m", "p", "e", "g">> }

\* A size in bytes is the pair <<whole GiB, remaining bytes>>, which keeps
\* 5 GiB and one byte more exact.
maxFileSize == <<5, 0>>

Exceeds(size, max) ==
  size[1] > max[1] \/ (size[1] = max[1] /\ size[2] > max[2])

File(name, size) == [name |-> name, size |-> size]

\* The files the user may pick or drop.
Files ==
  { File(<<"a", ".", "m", "p", "4">>, <<0, 1>>),
    File(<<"a", ".", "M", "p", "E", "G">>, <<5, 0>>),
    File(<<"a", ".", "m", "p", "4">>, <<5, 1>>),
    File(<<"a", ".", "t", "x", "t">>, <<0, 1>>),
    File(<<"a", ".", "m", "p", "4", ".", "t", "x", "t">>, <<0, 1>>),
    File(<<"a", ".">>, <<0, 1>>),
    File(<<"m", "p", "4">>, <<0, 1>>) }

\* The file of the walk through the whole application.
VideoFile == File(<<"a", ".", "m", "p", "4">>, <<0, 1>>)

\* validateFile: the message it sets, '' when the file passes.
ValidationError(file) ==
  IF (<<".">> \o ToLowerCase(SplitPop(file.name))) \notin allowedExtensions
  THEN "Formato no permitido"
  ELSE IF Exceeds(file.size, maxFileSize)
       THEN "El archivo es muy grande"
       ELSE ""

validateFile(file) == ValidationError(file) = ""

\* What the user may type as custom instructions.
InstructionTexts ==
  { <<>>, <<" ", "\n">>, <<"s", "e", "o">>, <<" ", "s", " ", "e", "\n">> }

AiProviders == {"openai", "gemini"}

\* ------------------------------------------------------------------ state

VARIABLES
  store,            \* ProgressStore: job id -> persisted Job snapshot
  analyses,         \* persisted AnalysisRecords: name -> record
  now,              \* the clock the timestamps are read from
  pc,               \* each runJob's position
  mem,              \* each runJob's in-memory values, lost when it dies
  ret,              \* what each runJob handed to its caller
  transcribeCalls,  \* invocations of the TranscriptionEngine per job
  suggestCalls,     \* invocations of the SuggestionEngine per job
  transcribeOutcome,\* how the TranscriptionEngine call of a job ended:
                    \* <<"none">>, <<"failed">> or <<"ok", the result>>
  suggestOutcome,   \* how the SuggestionEngine call of a job ended
  rawCheckpointed,  \* whether step 5's write of a job has completed
  toolPc,           \* RecoveryTool: "idle", or "recovering" a job it read
  toolJob,          \* the Job snapshot a running recover has read
  toolOutput,       \* what the RecoveryTool printed in the step just taken
  requests,         \* App: the upload request that started each job,
                    \* "none", "sent" (in flight) or "settled"
  isProcessing,     \* App
  result,           \* App: null, or the response shown
  error,            \* App: '' or the message shown
  selectedFile,     \* VideoUploader
  uploadError,      \* VideoUploader's own error: '' or the message shown
  showCustomInstructions, \* SuggestionsPanel
  customInstructions,     \* SuggestionsPanel
  isRegenerating,         \* SuggestionsPanel
  regeneratedSuggestions, \* SuggestionsPanel
  selectedTitleIndex,     \* SuggestionsPanel
  aiProvider,             \* SuggestionsPanel
  regenerateRequest,\* the body of the regenerate request in flight, if any
  alerted           \* the last alert() the panel raised, '' before any

vars == <<store, analyses, now, pc, mem, ret, transcribeCalls, suggestCalls,
          transcribeOutcome, suggestOutcome, rawCheckpointed, toolPc,
          toolJob, toolOutput, requests, isProcessing, result, error,
          selectedFile, uploadError, showCustomInstructions,
          customInstructions, isRegenerating, regeneratedSuggestions,
          selectedTitleIndex, aiProvider, regenerateRequest, alerted>>

\* What one runJob owns besides its Job record, and the engines' bookkeeping.
runVars == <<pc, mem, ret>>
callVars == <<transcribeCalls, suggestCalls, transcribeOutcome,
              suggestOutcome, rawCheckpointed>>
toolVars == <<toolPc, toolJob>>
appVars == <<requests, isProcessing, result, error>>
uploaderVars == <<selectedFile, uploadError>>
panelState == <<showCustomInstructions, customInstructions, isRegenerating,
                regeneratedSuggestions, selectedTitleIndex, aiProvider>>
panelVars == <<panelState, regenerateRequest, alerted>>
frontendVars == <<appVars, uploaderVars, panelVars>>
backendVars == <<store, analyses, now, runVars, callVars, toolVars>>

\* ----------------------------------------------------------- ProgressStore

\* The snapshot ProgressStore.create persists for a new job. Of the two
\* timestamps of a Job only startedAt is kept: whisperCompletedAt is
\* written with the raw result and read by no operation.
NewJob(j, t) ==
  [jobId |-> j, sourcePath |-> SourcePath(j),
   originalFilename |-> OriginalFilename(j),
   status |-> "started", stage |-> "initializing", progressPercent |-> 0,
   rawTranscriptionResult |-> None, formattedSegments |-> None,
   segmentCount |-> 0, duration |-> 0, error |-> None,
   startedAt |-> t, revision |-> 0]

\* ProgressStore.update: merge the partial fields, bump the revision.
MergeFields(job, fields) ==
  [k \in DOMAIN job |->
     IF k \in DOMAIN fields THEN fields[k]
     ELSE IF k = "revision" THEN job.revision + 1
     ELSE job[k]]

StoreCreate(s, j, t) == [k \in DOMAIN s \cup {j} |->
                           IF k = j THEN NewJob(j, t) ELSE s[k]]

\* A mutant of StoreUpdate: one progress file shared by all the jobs.
StoreUpdateShared(s, j, fields) ==
  [k \in DOMAIN s |-> MergeFields(s[k], fields)]

StoreUpdate(s, j, fields) == [s EXCEPT ![j] = MergeFields(s[j], fields)]

\* A mutant of HasTranscript: only the formatted segments are looked at.
HasTranscriptFormattedOnly(job) == IsPresent(job.formattedSegments)

\* The recoverability condition: a transcript checkpoint is present.
HasTranscript(job) ==
  IsPresent(job.rawTranscriptionResult) \/ IsPresent(job.formattedSegments)

\* --------------------------------------------------------- AnalysisRecords

AnalysisName(t, filename, recovered, k) == <<t, filename, recovered, k>>

\* A mutant of FreshName: the name is the timestamp and the file name alone.
FreshNameNoSuffix(a, t, filename, recovered) ==
  AnalysisName(t, filename, recovered, 0)

\* A name no persisted AnalysisRecord has: timestamp, file name, the
\* RECOVERED mark, and the first free distinguishing suffix.
FreshName(a, t, filename, recovered) ==
  AnalysisName(t, filename, recovered,
    CHOOSE k \in 0..Cardinality(DOMAIN a) :
      /\ AnalysisName(t, filename, recovered, k) \notin DOMAIN a
      /\ \A i \in 0..(k - 1) :
           AnalysisName(t, filename, recovered, i) \in DOMAIN a)

PersistAnalysis(a, name, rec) ==
  [n \in DOMAIN a \cup {name} |-> IF n = name THEN rec ELSE a[n]]

BuildAnalysis(j, filename, segments, sugg, duration, t, degr, recov) ==
  [id |-> j, originalFilename |-> filename, transcription |-> segments,
   suggestions |-> sugg, durationSeconds |-> duration,
   processedAt |-> t, degraded |-> degr, recovered |-> recov]

\* ------------------------------------------------------------ orchestrator

EmptyMem == [whisper |-> None, formatted |-> None, suggestions |-> None,
             degraded |-> FALSE, record |-> None]

\* runJob is on its way: neither returned, raised, cancelled nor dead.
RunningPcs == {"created", "extracting", "transcribing", "whisper_returned",
               "transcription_failed", "raw_saved", "formatted_saved",
               "suggesting", "suggested", "completed"}

\* runJob has ended: it returned, raised, was cancelled or died.
EndedPcs == {"returned", "raised", "aborted", "cancelled", "crashed"}

\* Positions whose next step is a ProgressStore write.
WritePcs == {"idle", "created", "extracting", "whisper_returned",
             "transcription_failed", "raw_saved", "suggested"}

Init ==
  /\ store = [j \in {} |-> 0]
  /\ analyses = [n \in {} |-> 0]
  /\ now = 0
  /\ pc = [j \in JobIds |-> "idle"]
  /\ mem = [j \in JobIds |-> EmptyMem]
  /\ ret = [j \in JobIds |-> None]
  /\ transcribeCalls = [j \in JobIds |-> 0]
  /\ suggestCalls = [j \in JobIds |-> 0]
  /\ transcribeOutcome = [j \in JobIds |-> <<"none">>]
  /\ rawCheckpointed = [j \in JobIds |-> FALSE]
  /\ suggestOutcome = [j \in JobIds |-> "none"]
  /\ toolPc = "idle"
  /\ toolJob = None
  /\ toolOutput = None
  /\ requests = [j \in JobIds |-> "none"]
  /\ isProcessing = FALSE
  /\ result = None
  /\ error = ""
  /\ selectedFile = None
  /\ uploadError = ""
  /\ showCustomInstructions = FALSE
  /\ customInstructions = <<>>
  /\ isRegenerating = FALSE
  /\ regeneratedSuggestions = None
  /\ selectedTitleIndex = 0
  /\ aiProvider = "openai"
  /\ regenerateRequest = None
  /\ alerted = ""

\* The fields each checkpoint of runJob hands to ProgressStore.update.
ExtractingAudioFields ==
  [status |-> "in_progress", stage |-> "extracting_audio",
   progressPercent |-> 5]

\* A mutant of TranscribingFields: the percentage of the notes' examples.
TranscribingFieldsHalfway ==
  [status |-> "in_progress", stage |-> "transcribing",
   progressPercent |-> 50]

TranscribingFields ==
  [status |-> "in_progress", stage |-> "transcribing",
   progressPercent |-> 10]

RawResultFields(r) == [rawTranscriptionResult |-> Some(r)]

\* A mutant of FormattedFields: an empty segment list is stored as null.
FormattedFieldsNullWhenEmpty(r) ==
  [formattedSegments |-> IF FormatSegments(r) = <<>> THEN None
                         ELSE Some(FormatSegments(r)),
   segmentCount |-> Len(FormatSegments(r)), duration |-> r.duration,
   stage |-> "transcription_complete", progressPercent |-> 90]

FormattedFields(r) ==
  [formattedSegments |-> Some(FormatSegments(r)),
   segmentCount |-> Len(FormatSegments(r)), duration |-> r.duration,
   stage |-> "transcription_complete", progressPercent |-> 90]

\* A mutant of CompleteFields: the progress is written as a fraction.
CompleteFieldsAsFraction ==
  [status |-> "complete", stage |-> "complete", progressPercent |-> 1]

CompleteFields ==
  [status |-> "complete", stage |-> "complete", progressPercent |-> 100]

\* A mutant of FailedFields: the failure update starts the stage over.
FailedFieldsStageReset ==
  [status |-> "failed", error |-> Some("Whisper transcription failed"),
   stage |-> "initializing"]

FailedFields ==
  [status |-> "failed", error |-> Some("Whisper transcription failed")]

\* Step 1: create the progress record.
CreateProgressFile(j) ==
  /\ pc[j] = "idle"
  /\ store' = StoreCreate(store, j, now)
  /\ pc' = [pc EXCEPT ![j] = "created"]
  /\ UNCHANGED <<analyses, now, mem, ret, callVars, toolVars>>
  /\ toolOutput' = None
  /\ UNCHANGED frontendVars

\* Step 2: audio extraction.
UpdateExtractingAudio(j) ==
  /\ pc[j] = "created"
  /\ store' = StoreUpdate(store, j, ExtractingAudioFields)
  /\ pc' = [pc EXCEPT ![j] = "extracting"]
  /\ UNCHANGED <<analyses, now, mem, ret, callVars, toolVars>>
  /\ toolOutput' = None
  /\ UNCHANGED frontendVars

\* Steps 3 and 4: mark the job transcribing and call the engine.
UpdateTranscribing(j) ==
  /\ pc[j] = "extracting"
  /\ store' = StoreUpdate(store, j, TranscribingFields)
  /\ transcribeCalls' = [transcribeCalls EXCEPT ![j] = @ + 1]
  /\ pc' = [pc EXCEPT ![j] = "transcribing"]
  /\ UNCHANGED <<analyses, now, mem, ret, suggestCalls, transcribeOutcome,
                 suggestOutcome, rawCheckpointed, toolVars>>
  /\ toolOutput' = None
  /\ UNCHANGED frontendVars

\* Step 4: the engine returns; the result is in memory only.
WhisperReturns(j, r) ==
  /\ pc[j] = "transcribing"
  /\ mem' = [mem EXCEPT ![j].whisper = Some(r)]
  /\ transcribeOutcome' = [transcribeOutcome EXCEPT ![j] = <<"ok", r>>]
  /\ pc' = [pc EXCEPT ![j] = "whisper_returned"]
  /\ UNCHANGED <<store, analyses, now, ret, transcribeCalls, suggestCalls,
                 suggestOutcome, rawCheckpointed, toolVars>>
  /\ toolOutput' = None
  /\ UNCHANGED frontendVars

\* A mutant of WhisperFails: the orchestrator tries the engine again.
WhisperFailsRetried(j) ==
  /\ pc[j] = "transcribing"
  /\ transcribeOutcome' = [transcribeOutcome EXCEPT ![j] = <<"failed">>]
  /\ pc' = [pc EXCEPT ![j] = "extracting"]
  /\ UNCHANGED <<store, analyses, now, mem, ret, transcribeCalls,
                 suggestCalls, suggestOutcome, rawCheckpointed, toolVars>>
  /\ toolOutput' = None
  /\ UNCHANGED frontendVars

\* Step 4: the engine raises.
WhisperFails(j) ==
  /\ pc[j] = "transcribing"
  /\ transcribeOutcome' = [transcribeOutcome EXCEPT ![j] = <<"failed">>]
  /\ pc' = [pc EXCEPT ![j] = "transcription_failed"]
  /\ UNCHANGED <<store, analyses, now, mem, ret, transcribeCalls,
                 suggestCalls, suggestOutcome, rawCheckpointed, toolVars>>
  /\ toolOutput' = None
  /\ UNCHANGED frontendVars

\* The transcription service fails after the engine returned, while it
\* derives the formatted segments or cleans up: same handler as above.
TranscribeVideoFails(j) ==
  /\ pc[j] \in {"raw_saved", "formatted_saved"}
  /\ mem' = [mem EXCEPT ![j] = EmptyMem]
  /\ pc' = [pc EXCEPT ![j] = "transcription_failed"]
  /\ UNCHANGED <<store, analyses, now, ret, callVars, toolVars>>
  /\ toolOutput' = None
  /\ UNCHANGED frontendVars

\* A mutant of MarkFailed: the failure handler rewrites the progress record
\* from scratch, dropping the transcript checkpoints.
MarkFailedClearing(j) ==
  /\ pc[j] = "transcription_failed"
  /\ store' = StoreUpdate(store, j,
       [status |-> "failed", error |-> Some("Whisper transcription failed"),
        rawTranscriptionResult |-> None, formattedSegments |-> None])
  /\ ret' = [ret EXCEPT ![j] = Some([error |-> "TranscriptionFailed"])]
  /\ pc' = [pc EXCEPT ![j] = "raised"]
  /\ UNCHANGED <<analyses, now, mem, callVars, toolVars>>
  /\ toolOutput' = None
  /\ UNCHANGED frontendVars

\* A mutant of MarkFailed: the error is raised, the record is not updated.
MarkFailedUnrecorded(j) ==
  /\ pc[j] = "transcription_failed"
  /\ ret' = [ret EXCEPT ![j] = Some([error |-> "TranscriptionFailed"])]
  /\ pc' = [pc EXCEPT ![j] = "raised"]
  /\ UNCHANGED <<store, analyses, now, mem, callVars, toolVars>>
  /\ toolOutput' = None
  /\ UNCHANGED frontendVars

\* Step 4, on failure: record it and raise TranscriptionFailed.
MarkFailed(j) ==
  /\ pc[j] = "transcription_failed"
  /\ store' = StoreUpdate(store, j, FailedFields)
  /\ ret' = [ret EXCEPT ![j] = Some([error |-> "TranscriptionFailed"])]
  /\ pc' = [pc EXCEPT ![j] = "raised"]
  /\ UNCHANGED <<analyses, now, mem, callVars, toolVars>>
  /\ toolOutput' = None
  /\ UNCHANGED frontendVars

\* A mutant of SaveRawWhisperResult: the raw result is not written.
SaveRawWhisperResultSkipped(j) ==
  /\ pc[j] = "whisper_returned"
  /\ pc' = [pc EXCEPT ![j] = "raw_saved"]
  /\ UNCHANGED <<store, analyses, now, mem, ret, callVars, toolVars>>
  /\ toolOutput' = None
  /\ UNCHANGED frontendVars

\* Step 5: persist the raw engine result.
SaveRawWhisperResult(j) ==
  /\ pc[j] = "whisper_returned"
  /\ store' = StoreUpdate(store, j, RawResultFields(mem[j].whisper[1]))
  /\ rawCheckpointed' = [rawCheckpointed EXCEPT ![j] = TRUE]
  /\ pc' = [pc EXCEPT ![j] = "raw_saved"]
  /\ UNCHANGED <<analyses, now, mem, ret, transcribeCalls, suggestCalls,
                 transcribeOutcome, suggestOutcome, toolVars>>
  /\ toolOutput' = None
  /\ UNCHANGED frontendVars

\* Step 6: derive and persist the formatted segments.
SaveFormattedSegments(j) ==
  /\ pc[j] = "raw_saved"
  /\ mem' = [mem EXCEPT ![j].formatted =
                          Some(FormatSegments(mem[j].whisper[1]))]
  /\ store' = StoreUpdate(store, j, FormattedFields(mem[j].whisper[1]))
  /\ pc' = [pc EXCEPT ![j] = "formatted_saved"]
  /\ UNCHANGED <<analyses, now, ret, callVars, toolVars>>
  /\ toolOutput' = None
  /\ UNCHANGED frontendVars

\* A mutant of GenerateSuggestions: no call for an empty transcript.
GenerateSuggestionsNonEmpty(j) ==
  /\ pc[j] = "formatted_saved"
  /\ store[j].segmentCount # 0
  /\ suggestCalls' = [suggestCalls EXCEPT ![j] = @ + 1]
  /\ pc' = [pc EXCEPT ![j] = "suggesting"]
  /\ UNCHANGED <<store, analyses, now, mem, ret, transcribeCalls,
                 transcribeOutcome, suggestOutcome, rawCheckpointed,
                 toolVars>>
  /\ toolOutput' = None
  /\ UNCHANGED frontendVars

\* Step 7: call the suggestion engine.
GenerateSuggestions(j) ==
  /\ pc[j] = "formatted_saved"
  /\ suggestCalls' = [suggestCalls EXCEPT ![j] = @ + 1]
  /\ pc' = [pc EXCEPT ![j] = "suggesting"]
  /\ UNCHANGED <<store, analyses, now, mem, ret, transcribeCalls,
                 transcribeOutcome, suggestOutcome, rawCheckpointed,
                 toolVars>>
  /\ toolOutput' = None
  /\ UNCHANGED frontendVars

\* Step 7: the suggestion engine returns.
SuggestionsReturn(j) ==
  /\ pc[j] = "suggesting"
  /\ mem' = [mem EXCEPT ![j].suggestions =
                          Some(EngineSuggestions(mem[j].formatted[1]))]
  /\ suggestOutcome' = [suggestOutcome EXCEPT ![j] = "ok"]
  /\ pc' = [pc EXCEPT ![j] = "suggested"]
  /\ UNCHANGED <<store, analyses, now, ret, transcribeCalls, suggestCalls,
                 transcribeOutcome, rawCheckpointed, toolVars>>
  /\ toolOutput' = None
  /\ UNCHANGED frontendVars

\* A mutant of SuggestionsFail: the engine's error is not caught; the job is
\* marked failed and the error reaches the caller.
SuggestionsFailFatal(j, e) ==
  /\ pc[j] = "suggesting"
  /\ store' = StoreUpdate(store, j,
       [status |-> "failed", error |-> Some(e)])
  /\ suggestOutcome' = [suggestOutcome EXCEPT ![j] = "failed"]
  /\ ret' = [ret EXCEPT ![j] = Some([error |-> e])]
  /\ mem' = [mem EXCEPT ![j] = EmptyMem]
  /\ pc' = [pc EXCEPT ![j] = "raised"]
  /\ UNCHANGED <<analyses, now, transcribeCalls, suggestCalls,
                 transcribeOutcome, rawCheckpointed, toolVars>>
  /\ toolOutput' = None
  /\ UNCHANGED frontendVars

\* Step 7: the suggestion engine raises e; whatever e is, the failure is
\* absorbed and the placeholder bundle stands in.
SuggestionsFail(j, e) ==
  /\ pc[j] = "suggesting"
  /\ mem' = [mem EXCEPT ![j].suggestions = Some(DefaultSuggestions),
                        ![j].degraded = TRUE]
  /\ suggestOutcome' = [suggestOutcome EXCEPT ![j] = "failed"]
  /\ pc' = [pc EXCEPT ![j] = "suggested"]
  /\ UNCHANGED <<store, analyses, now, ret, transcribeCalls, suggestCalls,
                 transcribeOutcome, rawCheckpointed, toolVars>>
  /\ toolOutput' = None
  /\ UNCHANGED frontendVars

\* Step 8, first half: build the AnalysisRecord, mark the job complete.
FinalSave(j) ==
  /\ pc[j] = "suggested"
  /\ mem' = [mem EXCEPT ![j].record =
       Some(BuildAnalysis(j, OriginalFilename(j), mem[j].formatted[1],
                          mem[j].suggestions[1], mem[j].whisper[1].duration,
                          now, mem[j].degraded, FALSE))]
  /\ store' = StoreUpdate(store, j, CompleteFields)
  /\ pc' = [pc EXCEPT ![j] = "completed"]
  /\ UNCHANGED <<analyses, now, ret, callVars, toolVars>>
  /\ toolOutput' = None
  /\ UNCHANGED frontendVars

\* Step 8, second half, and step 9: persist the record, return it.
SaveAnalysis(j) ==
  /\ pc[j] = "completed"
  /\ LET rec == mem[j].record[1]
         name == FreshName(analyses, rec.processedAt, rec.originalFilename,
                           FALSE)
     IN /\ analyses' = PersistAnalysis(analyses, name, rec)
        /\ ret' = [ret EXCEPT ![j] = Some(rec)]
  /\ mem' = [mem EXCEPT ![j] = EmptyMem]
  /\ pc' = [pc EXCEPT ![j] = "returned"]
  /\ UNCHANGED <<store, now, callVars, toolVars>>
  /\ toolOutput' = None
  /\ UNCHANGED frontendVars

\* A mutant of CheckpointWriteFails: the error is noted and the run goes on.
CheckpointWriteFailsSilently(j) ==
  /\ pc[j] \in WritePcs
  /\ ret' = [ret EXCEPT ![j] = Some([error |-> "CheckpointWriteFailed"])]
  /\ UNCHANGED <<store, analyses, now, pc, mem, callVars, toolVars>>
  /\ toolOutput' = None
  /\ UNCHANGED frontendVars

\* A ProgressStore create or update fails: the job aborts at once.
CheckpointWriteFails(j) ==
  /\ pc[j] \in WritePcs
  /\ ret' = [ret EXCEPT ![j] = Some([error |-> "CheckpointWriteFailed"])]
  /\ mem' = [mem EXCEPT ![j] = EmptyMem]
  /\ pc' = [pc EXCEPT ![j] = "aborted"]
  /\ UNCHANGED <<store, analyses, now, callVars, toolVars>>
  /\ toolOutput' = None
  /\ UNCHANGED frontendVars

\* A mutant of Cancel: the cancelled job's progress record is rolled back.
CancelRollingBack(j) ==
  /\ pc[j] \in RunningPcs
  /\ store' = [k \in DOMAIN store \ {j} |-> store[k]]
  /\ mem' = [mem EXCEPT ![j] = EmptyMem]
  /\ pc' = [pc EXCEPT ![j] = "cancelled"]
  /\ UNCHANGED <<analyses, now, ret, callVars, toolVars>>
  /\ toolOutput' = None
  /\ UNCHANGED frontendVars

\* The caller gives up on a running runJob.
Cancel(j) ==
  /\ pc[j] \in RunningPcs
  /\ mem' = [mem EXCEPT ![j] = EmptyMem]
  /\ pc' = [pc EXCEPT ![j] = "cancelled"]
  /\ UNCHANGED <<store, analyses, now, ret, callVars, toolVars>>
  /\ toolOutput' = None
  /\ UNCHANGED frontendVars

\* A mutant of Crash: the progress files do not survive the crash.
CrashLosingFiles ==
  /\ \E j \in JobIds : pc[j] \in RunningPcs
  /\ store' = [j \in {} |-> 0]
  /\ pc' = [j \in JobIds |->
            IF pc[j] \in RunningPcs THEN "crashed" ELSE pc[j]]
  /\ mem' = [j \in JobIds |-> EmptyMem]
  /\ UNCHANGED <<analyses, now, ret, callVars, toolVars>>
  /\ toolOutput' = None
  /\ UNCHANGED frontendVars

\* The server process dies: every running job dies with it.
Crash ==
  /\ \E j \in JobIds : pc[j] \in RunningPcs
  /\ mem' = [j \in JobIds |->
               IF pc[j] \in RunningPcs THEN EmptyMem ELSE mem[j]]
  /\ pc' = [j \in JobIds |->
              IF pc[j] \in RunningPcs THEN "crashed" ELSE pc[j]]
  /\ UNCHANGED <<store, analyses, now, ret, callVars, toolVars>>
  /\ toolOutput' = None
  /\ UNCHANGED frontendVars

Tick ==
  /\ now < MaxTime
  /\ now' = now + 1
  /\ UNCHANGED <<store, analyses, runVars, callVars, toolVars>>
  /\ toolOutput' = None
  /\ UNCHANGED frontendVars

OrchestratorStep(j) ==
  \/ CreateProgressFile(j)
  \/ UpdateExtractingAudio(j)
  \/ UpdateTranscribing(j)
  \/ \E r \in RawResults : WhisperReturns(j, r)
  \/ WhisperFails(j)
  \/ TranscribeVideoFails(j)
  \/ MarkFailed(j)
  \/ SaveRawWhisperResult(j)
  \/ SaveFormattedSegments(j)
  \/ GenerateSuggestions(j)
  \/ SuggestionsReturn(j)
  \/ \E e \in SuggestionErrors : SuggestionsFail(j, e)
  \/ FinalSave(j)
  \/ SaveAnalysis(j)
  \/ CheckpointWriteFails(j)

\* ------------------------------------------------------------ RecoveryTool

\* A mutant of ListEntry: hasTranscript is read off the stage.
ListEntryByStage(job) ==
  [jobId |-> job.jobId, status |-> job.status, stage |-> job.stage,
   progressPercent |-> job.progressPercent,
   hasTranscript |-> job.stage \in {"transcription_complete", "complete"}]

\* One line of listJobs.
ListEntry(job) ==
  [jobId |-> job.jobId, status |-> job.status, stage |-> job.stage,
   progressPercent |-> job.progressPercent,
   hasTranscript |-> HasTranscript(job)]

RecoveredCount ==
  Cardinality({n \in DOMAIN analyses : analyses[n].recovered})

NothingToRecover(j) ==
  Some([kind |-> "error", error |-> "NothingToRecover", jobId |-> j])

\* A mutant of RecoveredSegments: segments derived from the raw result lose
\* their end times.
RecoveredSegmentsWithoutEnds(job) ==
  IF IsPresent(job.formattedSegments)
  THEN job.formattedSegments[1]
  ELSE [i \in 1..Len(job.rawTranscriptionResult[1].segments) |->
          [FormatSegments(job.rawTranscriptionResult[1])[i]
             EXCEPT !.endSeconds = 0]]

\* The transcript recover extracts: the formatted segments when present,
\* otherwise the raw result put through step 6's bucketing.
RecoveredSegments(job) ==
  IF IsPresent(job.formattedSegments)
  THEN job.formattedSegments[1]
  ELSE FormatSegments(job.rawTranscriptionResult[1])

RecoveredDuration(job) ==
  IF IsPresent(job.rawTranscriptionResult)
  THEN job.rawTranscriptionResult[1].duration
  ELSE job.duration

\* A mutant of LatestRecoverable: the latest job, recoverable or not.
LatestStarted(s) ==
  {j \in DOMAIN s : \A k \in DOMAIN s : s[k].startedAt <= s[j].startedAt}

\* The jobs recoverLatest may pick: recoverable, none started later.
LatestRecoverable(s) ==
  {j \in DOMAIN s :
     /\ HasTranscript(s[j])
     /\ \A k \in DOMAIN s :
          HasTranscript(s[k]) => s[k].startedAt <= s[j].startedAt}

\* listJobs.
ListJobs ==
  /\ toolPc = "idle"
  /\ toolOutput' = Some([kind |-> "list",
                         jobs |-> [j \in DOMAIN store |-> ListEntry(store[j])]])
  /\ UNCHANGED <<store, analyses, now, runVars, callVars, toolPc, toolJob>>
  /\ UNCHANGED frontendVars

\* recover(j), first half: read the Job; fail when it holds no transcript.
RecoverRead(j) ==
  /\ toolPc = "idle"
  /\ j \in DOMAIN store
  /\ RecoveredCount < MaxRecoveries
  /\ IF HasTranscript(store[j])
     THEN /\ toolPc' = "recovering"
          /\ toolJob' = Some(store[j])
          /\ toolOutput' = None
     ELSE /\ toolOutput' = NothingToRecover(j)
          /\ UNCHANGED <<toolPc, toolJob>>
  /\ UNCHANGED <<store, analyses, now, runVars, callVars>>
  /\ UNCHANGED frontendVars

\* recoverLatest, first half: pick the latest recoverable job and read it.
RecoverLatestRead ==
  /\ toolPc = "idle"
  /\ RecoveredCount < MaxRecoveries
  /\ IF LatestRecoverable(store) = {}
     THEN /\ toolOutput' = NothingToRecover(0)
          /\ UNCHANGED <<toolPc, toolJob>>
     ELSE \E j \in LatestRecoverable(store) :
            /\ toolPc' = "recovering"
            /\ toolJob' = Some(store[j])
            /\ toolOutput' = None
  /\ UNCHANGED <<store, analyses, now, runVars, callVars>>
  /\ UNCHANGED frontendVars

\* A mutant of RecoverSave: the tool also marks the Job record recovered.
RecoverSaveMarkingJob ==
  /\ toolPc = "recovering"
  /\ LET job == toolJob[1]
         rec == BuildAnalysis(job.jobId, job.originalFilename,
                              RecoveredSegments(job), DefaultSuggestions,
                              RecoveredDuration(job), now, FALSE, TRUE)
         name == FreshName(analyses, now, job.originalFilename, TRUE)
     IN /\ analyses' = PersistAnalysis(analyses, name, rec)
        /\ toolOutput' = Some([kind |-> "recovered", jobId |-> job.jobId,
                               name |-> name])
        /\ store' = StoreUpdate(store, job.jobId, [status |-> "recovered"])
  /\ toolPc' = "idle"
  /\ toolJob' = None
  /\ UNCHANGED <<now, runVars, callVars>>
  /\ UNCHANGED frontendVars

\* recover / recoverLatest, second half: write the new AnalysisRecord.
RecoverSave ==
  /\ toolPc = "recovering"
  /\ LET job == toolJob[1]
         rec == BuildAnalysis(job.jobId, job.originalFilename,
                              RecoveredSegments(job), DefaultSuggestions,
                              RecoveredDuration(job), now, FALSE, TRUE)
         name == FreshName(analyses, now, job.originalFilename, TRUE)
     IN /\ analyses' = PersistAnalysis(analyses, name, rec)
        /\ toolOutput' = Some([kind |-> "recovered", jobId |-> job.jobId,
                               name |-> name])
  /\ toolPc' = "idle"
  /\ toolJob' = None
  /\ UNCHANGED <<store, now, runVars, callVars>>
  /\ UNCHANGED frontendVars

RecoveryStep ==
  \/ ListJobs
  \/ \E j \in JobIds : RecoverRead(j)
  \/ RecoverLatestRead
  \/ RecoverSave

\* -------------------------------------------------------------------- App

\* The job the next upload request starts: the first of ids that is yet
\* to start, 0 when there is none.
NextJob(ids) ==
  IF \E j \in ids : pc[j] = "idle"
  THEN CHOOSE j \in ids : pc[j] = "idle" /\ \A k \in ids : k < j => pc[k] # "idle"
  ELSE 0

\* handleFileSelect up to its await: the request that starts job j leaves.
HandleFileSelect(j) ==
  /\ j \in JobIds
  /\ requests[j] = "none"
  /\ pc[j] = "idle"
  /\ isProcessing' = TRUE
  /\ error' = ""
  /\ result' = None
  /\ requests' = [requests EXCEPT ![j] = "sent"]

\* POST /videos/process: the server runs the job of a request it received.
Serve(j) ==
  /\ requests[j] # "none"
  /\ OrchestratorStep(j)

\* handleFileSelect after its await, the request answered: the response is
\* shown, and the uploader leaves the page with its state.
UploadResolves(j) ==
  /\ requests[j] = "sent"
  /\ pc[j] = "returned"
  /\ result' = ret[j]
  /\ isProcessing' = FALSE
  /\ requests' = [requests EXCEPT ![j] = "settled"]
  /\ selectedFile' = None
  /\ uploadError' = ""
  /\ UNCHANGED <<error, backendVars, panelVars>>
  /\ toolOutput' = None

\* handleFileSelect after its await, the request failed: the server's
\* detail when it answered with one, the stock message otherwise.
UploadRejects(j) ==
  /\ requests[j] = "sent"
  /\ error' = IF ret[j] # None /\ "error" \in DOMAIN ret[j][1]
              THEN "detail"
              ELSE "Error al procesar el video"
  /\ isProcessing' = FALSE
  /\ requests' = [requests EXCEPT ![j] = "settled"]
  /\ UNCHANGED <<result, backendVars, uploaderVars, panelVars>>
  /\ toolOutput' = None

\* resetApp, behind the button of the results page: the panel leaves the
\* page with its state, and an answer still to come finds nobody.
resetApp ==
  /\ result # None
  /\ result' = None
  /\ error' = ""
  /\ showCustomInstructions' = FALSE
  /\ customInstructions' = <<>>
  /\ isRegenerating' = FALSE
  /\ regeneratedSuggestions' = None
  /\ selectedTitleIndex' = 0
  /\ aiProvider' = "openai"
  /\ regenerateRequest' = None
  /\ UNCHANGED <<requests, isProcessing, alerted, backendVars, uploaderVars>>
  /\ toolOutput' = None

\* ---------------------------------------------------------- VideoUploader

\* The highlight of the drop zone while a file is dragged over it
\* (dragActive) is not part of the state: no handler reads it.

\* What a drop or the file picker hands over: no file, or one.
FileLists == {<<>>} \cup {<<f>> : f \in Files}

\* handleDrop, with App's handleFileSelect behind onFileSelect; j is the
\* job the request starts when the file passes.
handleDrop(files, j) ==
  /\ result = None
  /\ IF files # <<>> /\ validateFile(files[1])
     THEN /\ uploadError' = ""
          /\ selectedFile' = Some(files[1])
          /\ HandleFileSelect(j)
     ELSE /\ uploadError' = IF files = <<>> THEN uploadError
                            ELSE ValidationError(files[1])
          /\ UNCHANGED <<selectedFile, appVars>>
  /\ UNCHANGED <<panelVars, backendVars>>
  /\ toolOutput' = None

\* handleChange of the file input, which is disabled while isProcessing.
handleChange(files, j) ==
  /\ result = None
  /\ ~isProcessing
  /\ IF files # <<>> /\ validateFile(files[1])
     THEN /\ uploadError' = ""
          /\ selectedFile' = Some(files[1])
          /\ HandleFileSelect(j)
     ELSE /\ uploadError' = IF files = <<>> THEN uploadError
                            ELSE ValidationError(files[1])
          /\ UNCHANGED <<selectedFile, appVars>>
  /\ UNCHANGED <<panelVars, backendVars>>
  /\ toolOutput' = None

\* The "Cambiar archivo" button, shown while nothing is processed.
ChangeFile ==
  /\ result = None
  /\ selectedFile # None
  /\ ~isProcessing
  /\ selectedFile' = None
  /\ uploadError' = ""
  /\ UNCHANGED <<appVars, panelVars, backendVars>>
  /\ toolOutput' = None

\* -------------------------------------------------------- SuggestionsPanel

\* The "Instrucciones" button.
ToggleCustomInstructions ==
  /\ result # None
  /\ showCustomInstructions' = ~showCustomInstructions
  /\ UNCHANGED <<customInstructions, isRegenerating, regeneratedSuggestions,
                 selectedTitleIndex, aiProvider, regenerateRequest, alerted>>
  /\ UNCHANGED <<appVars, uploaderVars, backendVars>>
  /\ toolOutput' = None

\* The textarea of the open instructions panel.
SetCustomInstructions(text) ==
  /\ result # None
  /\ showCustomInstructions
  /\ customInstructions' = text
  /\ UNCHANGED <<showCustomInstructions, isRegenerating,
                 regeneratedSuggestions, selectedTitleIndex, aiProvider,
                 regenerateRequest, alerted>>
  /\ UNCHANGED <<appVars, uploaderVars, backendVars>>
  /\ toolOutput' = None

\* The two provider buttons of the open instructions panel.
SetAiProvider(provider) ==
  /\ result # None
  /\ showCustomInstructions
  /\ aiProvider' = provider
  /\ UNCHANGED <<showCustomInstructions, customInstructions, isRegenerating,
                 regeneratedSuggestions, selectedTitleIndex,
                 regenerateRequest, alerted>>
  /\ UNCHANGED <<appVars, uploaderVars, backendVars>>
  /\ toolOutput' = None

\* A click on one of the regenerated titles.
SetSelectedTitleIndex(index) ==
  /\ result # None
  /\ regeneratedSuggestions # None
  /\ index \in 0..(Len(regeneratedSuggestions[1].titles) - 1)
  /\ selectedTitleIndex' = index
  /\ UNCHANGED <<showCustomInstructions, customInstructions, isRegenerating,
                 regeneratedSuggestions, aiProvider, regenerateRequest,
                 alerted>>
  /\ UNCHANGED <<appVars, uploaderVars, backendVars>>
  /\ toolOutput' = None

\* A mutant of RegenerateBody: the instructions are sent as typed.
RegenerateBodyAsTyped(transcription, instructions, provider) ==
  [transcription |-> transcription,
   custom_instructions |->
     IF instructions = <<>> THEN None ELSE Some(instructions),
   ai_provider |-> provider]

\* The body of the regenerate request: JSON.stringify leaves out a field
\* that is undefined.
RegenerateBody(transcription, instructions, provider) ==
  [transcription |-> transcription,
   custom_instructions |->
     IF Trim(instructions) = <<>> THEN None ELSE Some(Trim(instructions)),
   ai_provider |-> provider]

\* What the regenerate endpoint answers for a transcription.
RegeneratedSuggestions(transcription) ==
  [titles |-> <<"t1", "t2", "t3", "t4">>, description |-> "regenerated",
   thumbnailPrompt |-> "regenerated", segments |-> Len(transcription)]

\* A mutant of handleRegenerateSuggestions: the highlights of the
\* suggestions shown are sent in place of the transcription.
handleRegenerateSuggestionsFromHighlights ==
  /\ result # None
  /\ ~isRegenerating
  /\ IF Len(result[1].transcription) = 0
     THEN /\ alerted' = "No hay transcripcion disponible"
          /\ UNCHANGED <<isRegenerating, regenerateRequest>>
     ELSE /\ isRegenerating' = TRUE
          /\ regenerateRequest' =
               Some(RegenerateBody(result[1].suggestions.highlights,
                                   customInstructions, aiProvider))
          /\ UNCHANGED alerted
  /\ UNCHANGED <<showCustomInstructions, customInstructions,
                 regeneratedSuggestions, selectedTitleIndex, aiProvider>>
  /\ UNCHANGED <<appVars, uploaderVars, backendVars>>
  /\ toolOutput' = None

\* A mutant of handleRegenerateSuggestions: suggestions without highlights
\* are taken for nothing to regenerate.
handleRegenerateSuggestionsNeedingHighlights ==
  /\ result # None
  /\ ~isRegenerating
  /\ IF \/ Len(result[1].transcription) = 0
        \/ Len(result[1].suggestions.highlights) = 0
     THEN /\ alerted' = "No hay transcripcion disponible"
          /\ UNCHANGED <<isRegenerating, regenerateRequest>>
     ELSE /\ isRegenerating' = TRUE
          /\ regenerateRequest' =
               Some(RegenerateBody(result[1].transcription,
                                   customInstructions, aiProvider))
          /\ UNCHANGED alerted
  /\ UNCHANGED <<showCustomInstructions, customInstructions,
                 regeneratedSuggestions, selectedTitleIndex, aiProvider>>
  /\ UNCHANGED <<appVars, uploaderVars, backendVars>>
  /\ toolOutput' = None

\* handleRegenerateSuggestions up to its await; the button is disabled
\* while isRegenerating.
handleRegenerateSuggestions ==
  /\ result # None
  /\ ~isRegenerating
  /\ IF Len(result[1].transcription) = 0
     THEN /\ alerted' = "No hay transcripcion disponible"
          /\ UNCHANGED <<isRegenerating, regenerateRequest>>
     ELSE /\ isRegenerating' = TRUE
          /\ regenerateRequest' =
               Some(RegenerateBody(result[1].transcription,
                                   customInstructions, aiProvider))
          /\ UNCHANGED alerted
  /\ UNCHANGED <<showCustomInstructions, customInstructions,
                 regeneratedSuggestions, selectedTitleIndex, aiProvider>>
  /\ UNCHANGED <<appVars, uploaderVars, backendVars>>
  /\ toolOutput' = None

\* A mutant of RegenerateSucceeds: the answer is written into the saved
\* analysis of the video shown.
RegenerateOverwriting ==
  /\ result # None
  /\ regenerateRequest # None
  /\ regeneratedSuggestions' =
       Some(RegeneratedSuggestions(regenerateRequest[1].transcription))
  /\ selectedTitleIndex' = 0
  /\ showCustomInstructions' = FALSE
  /\ isRegenerating' = FALSE
  /\ regenerateRequest' = None
  /\ analyses' = [n \in DOMAIN analyses |->
       IF analyses[n].id = result[1].id
       THEN [analyses[n] EXCEPT !.suggestions =
               RegeneratedSuggestions(regenerateRequest[1].transcription)]
       ELSE analyses[n]]
  /\ UNCHANGED <<customInstructions, aiProvider, alerted>>
  /\ UNCHANGED <<appVars, uploaderVars, store, now, runVars, callVars,
                 toolVars>>
  /\ toolOutput' = None

\* handleRegenerateSuggestions after its await, the request answered: the
\* panel keeps the answer in its own state.
RegenerateSucceeds ==
  /\ result # None
  /\ regenerateRequest # None
  /\ regeneratedSuggestions' =
       Some(RegeneratedSuggestions(regenerateRequest[1].transcription))
  /\ selectedTitleIndex' = 0
  /\ showCustomInstructions' = FALSE
  /\ isRegenerating' = FALSE
  /\ regenerateRequest' = None
  /\ UNCHANGED <<customInstructions, aiProvider, alerted>>
  /\ UNCHANGED <<appVars, uploaderVars, backendVars>>
  /\ toolOutput' = None

\* How a regenerate request fails: the three answers told apart, and no
\* answer at all.
RegenerateFailures == {"429", "401", "other", "network"}

\* A mutant of RegenerateFails: without the finally clause.
RegenerateFailsStuck(failure) ==
  /\ result # None
  /\ regenerateRequest # None
  /\ alerted' = failure
  /\ regenerateRequest' = None
  /\ UNCHANGED <<showCustomInstructions, customInstructions, isRegenerating,
                 regeneratedSuggestions, selectedTitleIndex, aiProvider>>
  /\ UNCHANGED <<appVars, uploaderVars, backendVars>>
  /\ toolOutput' = None

\* handleRegenerateSuggestions after its await, the request failed: an
\* alert, and the finally clause.
RegenerateFails(failure) ==
  /\ result # None
  /\ regenerateRequest # None
  /\ alerted' = failure
  /\ isRegenerating' = FALSE
  /\ regenerateRequest' = None
  /\ UNCHANGED <<showCustomInstructions, customInstructions,
                 regeneratedSuggestions, selectedTitleIndex, aiProvider>>
  /\ UNCHANGED <<appVars, uploaderVars, backendVars>>
  /\ toolOutput' = None

Regenerate ==
  \/ handleRegenerateSuggestions
  \/ RegenerateSucceeds
  \/ \E failure \in RegenerateFailures : RegenerateFails(failure)

\* The uploads of one client through the file picker, the clock, the
\* recovery utility, and the panel with its settings as they come.
Next ==
  \/ handleChange(<<VideoFile>>, NextJob(Uploads))
  \/ \E j \in Uploads : OrchestratorStep(j)
  \/ \E j \in Uploads : Cancel(j)
  \/ \E j \in Uploads : UploadResolves(j)
  \/ \E j \in Uploads : UploadRejects(j)
  \/ resetApp
  \/ Crash
  \/ Tick
  \/ RecoveryStep
  \/ Regenerate

Spec == Init /\ [][Next]_vars

\* Several pipelines side by side, the clock, and recoverLatest.
NextPipelines ==
  \/ \E j \in JobIds : OrchestratorStep(j)
  \/ Crash
  \/ Tick
  \/ RecoverLatestRead
  \/ RecoverSave

SpecPipelines == Init /\ [][NextPipelines]_vars

\* The upload page: whatever the user drops or picks, the requests and
\* their answers.
NextApp ==
  \/ \E files \in FileLists : handleDrop(files, NextJob(JobIds))
  \/ \E files \in FileLists : handleChange(files, NextJob(JobIds))
  \/ ChangeFile
  \/ \E j \in JobIds : Serve(j)
  \/ \E j \in JobIds : UploadResolves(j)
  \/ \E j \in JobIds : UploadRejects(j)
  \/ resetApp

SpecApp == Init /\ [][NextApp]_vars

\* The results page of one upload: the panel and all its controls.
NextPanel ==
  \/ handleChange(<<VideoFile>>, NextJob(Uploads))
  \/ \E j \in Uploads : OrchestratorStep(j)
  \/ \E j \in Uploads : UploadResolves(j)
  \/ \E j \in Uploads : UploadRejects(j)
  \/ resetApp
  \/ ToggleCustomInstructions
  \/ \E text \in InstructionTexts : SetCustomInstructions(text)
  \/ \E provider \in AiProviders : SetAiProvider(provider)
  \/ \E index \in 0..3 : SetSelectedTitleIndex(index)
  \/ Regenerate

SpecPanel == Init /\ [][NextPanel]_vars

\* ------------------------------------------------------------- properties

\* The formatted segments carry every segment the engine returned, in order,
\* with its text and its times.
SameTranscript(formatted, raw) ==
  /\ Len(formatted) = Len(raw.segments)
  /\ \A i \in 1..Len(formatted) :
       /\ formatted[i].text = raw.segments[i].text
       /\ formatted[i].startSeconds = raw.segments[i].start
       /\ formatted[i].endSeconds = raw.segments[i].end

\* recover(j), run now, would return a record holding the transcript the
\* engine returned for j.
RecoverYieldsTranscript(j) ==
  /\ j \in DOMAIN store
  /\ \/ IsPresent(store[j].formattedSegments)
     \/ IsPresent(store[j].rawTranscriptionResult)
  /\ transcribeOutcome[j][1] = "ok"
  /\ SameTranscript(RecoveredSegments(store[j]), transcribeOutcome[j][2])

IsError(r) == r # None /\ "error" \in DOMAIN r[1]

\* C1: the suggestion engine is invoked for a job only when the job's
\* persisted record already holds rawTranscriptionResult: the raw write
\* comes strictly before the call.
C1_RawSavedBeforeSuggestions ==
  [][\A j \in JobIds :
       suggestCalls'[j] # suggestCalls[j] =>
         /\ j \in DOMAIN store
         /\ IsPresent(store[j].rawTranscriptionResult)
         /\ rawCheckpointed[j]]_vars

C1_Witness ==
  \E j \in JobIds :
    /\ suggestCalls[j] = 1
    /\ pc[j] = "suggesting"
    /\ IsPresent(store[j].rawTranscriptionResult)

\* C2 as stated: once the transcription engine has returned successfully,
\* whatever ends the run, recover yields the full transcript.
C2_EngineReturnSuffices ==
  \A j \in JobIds :
    (transcribeOutcome[j][1] = "ok" /\ pc[j] \in EndedPcs) =>
      RecoverYieldsTranscript(j)

\* C2, amended: once the raw result has been checkpointed (step 5), nothing
\* that happens next loses the transcript: recover yields all of it.
C2_CheckpointedTranscriptSafe ==
  \A j \in JobIds : rawCheckpointed[j] => RecoverYieldsTranscript(j)

C2_Witness ==
  \E j \in JobIds :
    /\ rawCheckpointed[j]
    /\ pc[j] = "crashed"
    /\ Len(transcribeOutcome[j][2].segments) = 3
    /\ ~IsPresent(store[j].formattedSegments)

\* C3: rawTranscriptionResult and formattedSegments are append-only: no
\* update, a later failure included, changes or clears a written one.
C3_TranscriptFieldsAppendOnly ==
  [][\A j \in DOMAIN store :
       /\ j \in DOMAIN store'
       /\ IsPresent(store[j].rawTranscriptionResult) =>
            store'[j].rawTranscriptionResult = store[j].rawTranscriptionResult
       /\ IsPresent(store[j].formattedSegments) =>
            store'[j].formattedSegments = store[j].formattedSegments]_vars

C3_Witness ==
  \E j \in DOMAIN store :
    /\ store[j].status = "failed"
    /\ IsPresent(store[j].rawTranscriptionResult)
    /\ IsPresent(store[j].formattedSegments)

\* C4: when the suggestion engine fails, the job is never marked failed and
\* no error reaches the caller; a run that returns returns a persisted
\* record with the full transcript, the default suggestions and
\* degraded = TRUE, and the job's status is complete.
C4_SuggestionFailureDegrades ==
  \A j \in JobIds :
    suggestOutcome[j] = "failed" =>
      /\ store[j].status # "failed"
      /\ pc[j] # "raised"
      /\ pc[j] = "returned" =>
           /\ ret[j] # None
           /\ ~IsError(ret[j])
           /\ SameTranscript(ret[j][1].transcription, transcribeOutcome[j][2])
           /\ ret[j][1].suggestions = DefaultSuggestions
           /\ ret[j][1].degraded
           /\ ~ret[j][1].recovered
           /\ store[j].status = "complete"
           /\ \E n \in DOMAIN analyses : analyses[n] = ret[j][1]

C4_Witness ==
  \E j \in JobIds :
    /\ suggestOutcome[j] = "failed"
    /\ pc[j] = "returned"
    /\ Len(ret[j][1].transcription) = 3

C6_CancelledAlwaysRecoverable ==
  \A j \in JobIds :
    pc[j] = "cancelled" =>
      /\ j \in DOMAIN store
      /\ \/ IsPresent(store[j].formattedSegments)
         \/ IsPresent(store[j].rawTranscriptionResult)

\* C6, amended: cancelling leaves the written checkpoints as they are, the
\* cancelled job is listed by listJobs, and recover on it succeeds exactly
\* when the raw result had been checkpointed before the cancellation;
\* otherwise it reports NothingToRecover.
C6_CancelKeepsCheckpoints ==
  /\ [][\A j \in JobIds :
          (pc[j] # "cancelled" /\ pc'[j] = "cancelled") =>
            /\ pc[j] \in RunningPcs
            /\ store' = store
            /\ analyses' = analyses]_vars
  /\ [](\A j \in JobIds :
          pc[j] = "cancelled" =>
            /\ j \in DOMAIN store
            /\ rawCheckpointed[j] => RecoverYieldsTranscript(j)
            /\ ~rawCheckpointed[j] =>
                 /\ ~IsPresent(store[j].rawTranscriptionResult)
                 /\ ~IsPresent(store[j].formattedSegments)
            /\ toolOutput # None =>
                 LET out == toolOutput[1]
                 IN /\ out.kind = "list" =>
                         /\ j \in DOMAIN out.jobs
                         /\ out.jobs[j].hasTranscript = rawCheckpointed[j]
                    /\ (out.kind = "error" /\ out.jobId = j) =>
                         ~rawCheckpointed[j]
                    /\ (out.kind = "recovered" /\ out.jobId = j) =>
                         /\ rawCheckpointed[j]
                         /\ SameTranscript(analyses[out.name].transcription,
                                           transcribeOutcome[j][2]))

C6_Witness ==
  \E j \in JobIds :
    /\ pc[j] = "cancelled"
    /\ store[j].stage = "transcribing"
    /\ rawCheckpointed[j]
    /\ toolOutput # None
    /\ toolOutput[1].kind = "recovered"
    /\ toolOutput[1].jobId = j

\* C7: recover(jobId) reports NothingToRecover exactly when the job's record
\* holds neither formattedSegments nor rawTranscriptionResult; otherwise it
\* goes on to write and return an analysis record.
C7_NothingToRecoverExactly ==
  [][/\ \A j \in JobIds :
          RecoverRead(j) =>
            IF /\ ~IsPresent(store[j].formattedSegments)
               /\ ~IsPresent(store[j].rawTranscriptionResult)
            THEN toolOutput' = NothingToRecover(j) /\ toolPc' = "idle"
            ELSE /\ toolPc' = "recovering"
                 /\ toolJob' = Some(store[j])
                 /\ toolOutput' = None
     /\ RecoverSave =>
          /\ toolOutput' # None
          /\ toolOutput'[1].kind = "recovered"
          /\ toolOutput'[1].jobId = toolJob[1].jobId
          /\ toolOutput'[1].name \in DOMAIN analyses'
          /\ analyses'[toolOutput'[1].name].id = toolJob[1].jobId]_vars

C7_Witness ==
  \E j \in DOMAIN store :
    /\ toolOutput = NothingToRecover(j)
    /\ store[j].stage = "transcribing"
    /\ pc[j] = "crashed"

\* What C8 says of every state: the listing and the failed job.
C8_ListAndFailedJobs ==
  /\ (toolOutput # None /\ toolOutput[1].kind = "list") =>
       /\ DOMAIN toolOutput[1].jobs = DOMAIN store
       /\ \A j \in DOMAIN store :
            /\ toolOutput[1].jobs[j].hasTranscript =
                 (\/ IsPresent(store[j].rawTranscriptionResult)
                  \/ IsPresent(store[j].formattedSegments))
            /\ toolOutput[1].jobs[j].status = store[j].status
            /\ toolOutput[1].jobs[j].stage = store[j].stage
            /\ transcribeOutcome[j] = <<"failed">> =>
                 ~toolOutput[1].jobs[j].hasTranscript
  /\ \A j \in JobIds :
       transcribeOutcome[j] = <<"failed">> =>
         /\ \A n \in DOMAIN analyses : analyses[n].id # j
         /\ toolJob = None \/ toolJob[1].jobId # j
         /\ (toolOutput # None /\ toolOutput[1].kind = "recovered") =>
              toolOutput[1].jobId # j

\* C8: listJobs reports every job, with hasTranscript true exactly when the
\* record holds rawTranscriptionResult or formattedSegments; a job whose
\* engine call threw is reported with hasTranscript false and recover on
\* it yields NothingToRecover, never a record.
C8_HasTranscriptExact ==
  /\ [][\A j \in JobIds :
          (RecoverRead(j) /\ transcribeOutcome[j] = <<"failed">>) =>
            toolOutput' = NothingToRecover(j)]_vars
  /\ [](C8_ListAndFailedJobs)

C8_Witness ==
  /\ toolOutput # None
  /\ toolOutput[1].kind = "list"
  /\ \E j \in DOMAIN store :
       /\ store[j].status = "failed"
       /\ transcribeOutcome[j] = <<"failed">>
       /\ ~toolOutput[1].jobs[j].hasTranscript

FinalJob(j, t, r) ==
  MergeFields(MergeFields(MergeFields(MergeFields(MergeFields(
    NewJob(j, t), ExtractingAudioFields), TranscribingFields),
    RawResultFields(r)), FormattedFields(r)), CompleteFields)

\* C10: the recovery tool never writes a Job record: its steps leave the
\* store and the orchestrator's run as they are, whatever the interleaving,
\* and a run that completes ends with the Job record it writes when the
\* tool does not run.
C10_ToolNeverWritesJobs ==
  /\ [][(toolPc' # toolPc \/ toolJob' # toolJob \/ toolOutput' # None) =>
          UNCHANGED <<store, runVars, callVars>>]_vars
  /\ [](\A j \in JobIds :
          pc[j] = "returned" =>
            store[j] = FinalJob(j, store[j].startedAt,
                                transcribeOutcome[j][2]))

C10_Witness ==
  \E j \in JobIds :
    /\ pc[j] = "returned"
    /\ toolPc = "recovering"
    /\ toolJob[1].jobId = j
    /\ toolJob[1].status = "in_progress"
    /\ \E n \in DOMAIN analyses : analyses[n].recovered /\ analyses[n].id = j

\* C11: recoverLatest reads the job with the greatest startedAt among the
\* jobs that hold rawTranscriptionResult or formattedSegments, whatever
\* newer jobs without a transcript exist; when no stored job holds one (an
\* empty store included) it reports NothingToRecover.
C11_LatestRecoverablePicked ==
  [][RecoverLatestRead =>
       LET recoverable ==
             {j \in DOMAIN store :
                \/ IsPresent(store[j].rawTranscriptionResult)
                \/ IsPresent(store[j].formattedSegments)}
       IN IF recoverable = {}
          THEN /\ toolOutput' # None
               /\ toolOutput'[1].kind = "error"
               /\ toolOutput'[1].error = "NothingToRecover"
               /\ toolPc' = "idle"
          ELSE /\ toolPc' = "recovering"
               /\ toolJob' # None
               /\ toolJob'[1].jobId \in recoverable
               /\ toolJob'[1] = store[toolJob'[1].jobId]
               /\ \A k \in recoverable :
                    store[k].startedAt <= toolJob'[1].startedAt]_vars

C11_Witness ==
  /\ toolPc = "recovering"
  /\ toolJob[1].startedAt = 0
  /\ \E k \in DOMAIN store :
       /\ store[k].startedAt = 1
       /\ ~IsPresent(store[k].rawTranscriptionResult)
       /\ ~IsPresent(store[k].formattedSegments)

\* C12: a failed ProgressStore write aborts the job with
\* CheckpointWriteFailed: the failed write changes nothing, and from then on
\* the job calls no engine, writes no checkpoint and returns no record.
C12_WriteFailureAborts ==
  /\ [](\A j \in JobIds :
          ret[j] = Some([error |-> "CheckpointWriteFailed"]) =>
            /\ pc[j] = "aborted"
            /\ \A n \in DOMAIN analyses :
                 analyses[n].id = j => analyses[n].recovered)
  /\ [][\A j \in JobIds :
          /\ (pc[j] # "aborted" /\ pc'[j] = "aborted") =>
               /\ store' = store
               /\ analyses' = analyses
               /\ ret'[j] = Some([error |-> "CheckpointWriteFailed"])
          /\ (pc[j] = "aborted" \/ pc'[j] = "aborted") =>
               /\ pc'[j] = "aborted"
               /\ transcribeCalls'[j] = transcribeCalls[j]
               /\ suggestCalls'[j] = suggestCalls[j]
               /\ j \in DOMAIN store' <=> j \in DOMAIN store
               /\ j \in DOMAIN store => store'[j] = store[j]]_vars

C12_Witness ==
  \E j \in JobIds :
    /\ pc[j] = "aborted"
    /\ ret[j] = Some([error |-> "CheckpointWriteFailed"])
    /\ suggestCalls[j] = 1
    /\ store[j].stage = "transcription_complete"

C14_StageMonotone ==
  [][/\ \A j \in DOMAIN store :
          /\ j \in DOMAIN store'
          /\ store'[j].stage \in {Stages[i] : i \in 1..Len(Stages)}
          /\ StageRank(store'[j].stage) >= StageRank(store[j].stage)
     /\ \A j \in DOMAIN store' \ DOMAIN store :
          store'[j].stage = "initializing"]_vars

C14_Witness ==
  \E j \in DOMAIN store :
    /\ store[j].status = "failed"
    /\ store[j].stage = "transcription_complete"
    /\ store[j].revision = 5

\* C15: every persisted snapshot whose stage is transcription_complete or
\* complete holds both rawTranscriptionResult and formattedSegments, an
\* empty segment list being present too.
C15_TranscriptPresentFromTranscriptionComplete ==
  \A j \in DOMAIN store :
    store[j].stage \in {"transcription_complete", "complete"} =>
      /\ IsPresent(store[j].rawTranscriptionResult)
      /\ IsPresent(store[j].formattedSegments)

C15_Witness ==
  \E j \in DOMAIN store :
    /\ store[j].stage = "complete"
    /\ store[j].formattedSegments = Some(<<>>)
    /\ IsPresent(store[j].rawTranscriptionResult)

\* C16: progressPercent is an integer in 0..100 in every persisted
\* snapshot and never decreases from one snapshot of a job to the next, the
\* failure snapshot included.
C16_ProgressPercentMonotone ==
  /\ [](\A j \in DOMAIN store : store[j].progressPercent \in 0..100)
  /\ [][\A j \in DOMAIN store :
          /\ j \in DOMAIN store'
          /\ store'[j].progressPercent >= store[j].progressPercent]_vars

C16_Witness ==
  \E j \in DOMAIN store :
    /\ store[j].status = "failed"
    /\ store[j].progressPercent = 10
    /\ pc[j] = "raised"

\* C17: the orchestrator creates an analysis record for a job only when the
\* job completes, cleanly or degraded, never for a job marked failed, and no
\* step (runJob, recover, recoverLatest, regenerate) changes or removes a
\* record once it exists.
C17_AnalysisRecordsImmutable ==
  /\ [][/\ \A n \in DOMAIN analyses :
             n \in DOMAIN analyses' /\ analyses'[n] = analyses[n]
        /\ \A n \in DOMAIN analyses' \ DOMAIN analyses :
             \/ analyses'[n].recovered
             \/ /\ pc'[analyses'[n].id] = "returned"
                /\ store[analyses'[n].id].status = "complete"
                /\ ret'[analyses'[n].id] = Some(analyses'[n])]_vars
  /\ [](\A n \in DOMAIN analyses :
          ~analyses[n].recovered =>
            /\ analyses[n].id \in DOMAIN store
            /\ store[analyses[n].id].status = "complete"
            /\ pc[analyses[n].id] = "returned")

C17_Witness ==
  /\ regeneratedSuggestions # None
  /\ \E n, m \in DOMAIN analyses :
       /\ ~analyses[n].recovered
       /\ analyses[n].degraded
       /\ analyses[m].recovered
       /\ analyses[n].suggestions = DefaultSuggestions

\* The Job records a run of job j started at t writes when it runs alone
\* and the engine returns r: the record after each checkpoint, and the
\* failure snapshots.
AloneSnapshots(j, t, r) ==
  LET s0 == NewJob(j, t)
      s1 == MergeFields(s0, ExtractingAudioFields)
      s2 == MergeFields(s1, TranscribingFields)
      s3 == MergeFields(s2, RawResultFields(r))
      s4 == MergeFields(s3, FormattedFields(r))
      s5 == MergeFields(s4, CompleteFields)
  IN {s0, s1, s2, s3, s4, s5, MergeFields(s2, FailedFields),
      MergeFields(s3, FailedFields), MergeFields(s4, FailedFields)}

\* C19: concurrent jobs are isolated: a step that writes the record of one
\* job is a step of that job alone and leaves every other job's record and
\* run as they were, and every stored record is one the job writes when it
\* runs alone, under its own, unchanging job id.
C19_JobsIsolated ==
  /\ [][\A k \in JobIds :
          /\ k \in DOMAIN store => k \in DOMAIN store'
          /\ (k \in DOMAIN store' /\
                (k \notin DOMAIN store \/ store'[k] # store[k])) =>
               /\ pc'[k] # pc[k]
               /\ \A j \in JobIds \ {k} :
                    /\ pc'[j] = pc[j]
                    /\ mem'[j] = mem[j]
                    /\ ret'[j] = ret[j]
                    /\ j \in DOMAIN store' <=> j \in DOMAIN store
                    /\ j \in DOMAIN store => store'[j] = store[j]]_vars
  /\ [](\A j \in DOMAIN store :
          /\ store[j].jobId = j
          /\ \E r \in RawResults :
               store[j] \in AloneSnapshots(j, store[j].startedAt, r)
          /\ pc[j] = "returned" =>
               store[j] = FinalJob(j, store[j].startedAt,
                                   transcribeOutcome[j][2]))

C19_Witness ==
  \E j, k \in JobIds :
    /\ j # k
    /\ pc[j] = "returned" /\ pc[k] = "returned"
    /\ store[j].startedAt = store[k].startedAt
    /\ store[j].segmentCount = 3
    /\ store[k].segmentCount = 0

\* C20: an empty transcript is not an error: after a transcription that
\* returned no segment the run can still call the suggestion engine, build
\* and persist the record and complete; a run that returns has called the
\* engine, has status complete and returns the persisted record, its
\* transcript empty.
C20_EmptyTranscriptCompletes ==
  \A j \in JobIds :
    (transcribeOutcome[j][1] = "ok" /\
       transcribeOutcome[j][2].segments = <<>>) =>
      /\ pc[j] = "formatted_saved" =>
           /\ store[j].formattedSegments = Some(<<>>)
           /\ store[j].status = "in_progress"
           /\ ENABLED GenerateSuggestions(j)
      /\ pc[j] = "suggesting" => ENABLED SuggestionsReturn(j)
      /\ pc[j] = "suggested" => ENABLED FinalSave(j)
      /\ pc[j] = "completed" => ENABLED SaveAnalysis(j)
      /\ pc[j] \in {"suggesting", "suggested", "completed", "returned"} =>
           suggestCalls[j] = 1
      /\ pc[j] = "returned" =>
           /\ store[j].status = "complete"
           /\ ret[j] # None
           /\ ~IsError(ret[j])
           /\ ret[j][1].transcription = <<>>
           /\ \E n \in DOMAIN analyses : analyses[n] = ret[j][1]

C20_Witness ==
  \E j \in JobIds :
    /\ transcribeOutcome[j][1] = "ok"
    /\ transcribeOutcome[j][2].segments = <<>>
    /\ pc[j] = "returned"
    /\ ~ret[j][1].degraded
    /\ store[j].segmentCount = 0

\* A step in which a regenerate request leaves the panel.
RegenerateRequestLeaves == regenerateRequest = None /\ regenerateRequest' # None

IsBlank(str) == \A i \in 1..Len(str) : str[i] \in WhiteSpace

\* core is str without the white space at its two ends.
IsStripped(core, str) ==
  /\ core # <<>>
  /\ core[1] \notin WhiteSpace
  /\ core[Len(core)] \notin WhiteSpace
  /\ \E before \in 0..(Len(str) - Len(core)) :
       /\ SubSeq(str, before + 1, before + Len(core)) = core
       /\ \A i \in 1..before : str[i] \in WhiteSpace
       /\ \A i \in (before + Len(core) + 1)..Len(str) : str[i] \in WhiteSpace

\* C21 as the specification words it: a regenerate request carries the
\* custom instructions exactly as typed when they are not blank, and leaves
\* the field out when they are empty or white space only.
C21_InstructionsVerbatim ==
  [][RegenerateRequestLeaves =>
       regenerateRequest'[1].custom_instructions =
         IF IsBlank(customInstructions) THEN None
         ELSE Some(customInstructions)]_vars

\* C21, amended: a regenerate request carries the custom instructions with
\* the white space at their two ends removed and nothing else changed, and
\* leaves the field out when they are empty or white space only.
C21_InstructionsTrimmed ==
  [][RegenerateRequestLeaves =>
       IF IsBlank(customInstructions)
       THEN regenerateRequest'[1].custom_instructions = None
       ELSE /\ regenerateRequest'[1].custom_instructions # None
            /\ IsStripped(regenerateRequest'[1].custom_instructions[1],
                          customInstructions)]_vars

C21_Witness ==
  /\ regenerateRequest # None
  /\ customInstructions = <<" ", "s", " ", "e", "\n">>
  /\ regenerateRequest[1].custom_instructions = Some(<<"s", " ", "e">>)

\* A step of a regeneration: its request leaves, or it settles in the panel
\* that sent it.
RegenerateRequestSettles ==
  regenerateRequest # None /\ regenerateRequest' = None /\ result' # None

\* C22: regenerating never changes the transcript. The response the
\* application holds is the one the processing of the upload returned and
\* no step of a regeneration, answered or failed, changes it; a regenerate
\* request carries exactly its transcription; and no step of a regeneration
\* invokes the transcription engine or touches a job.
C22_RegenerateKeepsTranscript ==
  /\ [](result # None => \E j \in JobIds : result = ret[j])
  /\ [][RegenerateRequestLeaves =>
          regenerateRequest'[1].transcription = result[1].transcription]_vars
  /\ [][RegenerateRequestLeaves \/ RegenerateRequestSettles =>
          /\ result' = result
          /\ transcribeCalls' = transcribeCalls
          /\ transcribeOutcome' = transcribeOutcome
          /\ store' = store]_vars

C22_Witness ==
  /\ regenerateRequest # None
  /\ regeneratedSuggestions # None
  /\ alerted \in RegenerateFailures
  /\ result[1].suggestions = DefaultSuggestions
  /\ Len(result[1].transcription) = 3

\* The formats the documentation lists, as file-name extensions.
ListedFormats ==
  { <<"m", "p", "4">>, <<"a", "v", "i">>, <<"m", "o", "v">>,
    <<"m", "k", "v">>, <<"w", "e", "b", "m">>, <<"m", "p", "e", "g">> }

\* The name ends in a '.' followed by a listed format, in any case.
HasListedExtension(name) ==
  \E format \in ListedFormats :
    /\ Len(name) > Len(format)
    /\ name[Len(name) - Len(format)] = "."
    /\ ToLowerCase(SubSeq(name, Len(name) - Len(format) + 1, Len(name)))
         = format

AtMostFiveGB(size) == size[1] < 5 \/ size = <<5, 0>>

\* A step in which an upload request leaves the application.
RequestStarts ==
  \E j \in JobIds : requests[j] = "none" /\ requests'[j] = "sent"

\* C23: on the drag-and-drop path and on the file-picker path alike, the
\* uploader starts the processing of a file exactly when its extension is
\* one of the listed formats, in any case, and its size is at most 5 GB;
\* any other file gets an error message and starts nothing.
C23_UploaderValidates ==
  [][\A f \in Files :
       (\/ handleDrop(<<f>>, NextJob(JobIds))
        \/ handleChange(<<f>>, NextJob(JobIds))) =>
         IF HasListedExtension(f.name) /\ AtMostFiveGB(f.size)
         THEN RequestStarts /\ uploadError' = ""
         ELSE ~RequestStarts /\ uploadError' # ""]_vars

\* C27: at most one upload request is in flight at any time, and while
\* isProcessing no step starts one.
C27_OneUploadInFlight ==
  /\ [](Cardinality({j \in JobIds : requests[j] = "sent"}) <= 1)
  /\ [][isProcessing => ~RequestStarts]_vars

\* C28: isProcessing is true exactly while an upload request that was
\* started has not settled.
C28_IsProcessingWhileUnsettled ==
  isProcessing <=> (\E j \in JobIds : requests[j] = "sent")

\* C29: result and error are never both set.
C29_ResultAndErrorExclusive ==
  result # None => error = ""

\* The response shown is the record a job returned after its suggestion
\* engine call failed.
ShowsDegraded ==
  /\ result # None
  /\ \E j \in JobIds : result = ret[j] /\ suggestOutcome[j] = "failed"

\* The Regenerate button, pressed, sends the transcript of the response
\* shown and nothing is transcribed again.
RetryLeaves ==
  /\ handleRegenerateSuggestions
  /\ RegenerateRequestLeaves
  /\ regenerateRequest'[1].transcription = result[1].transcription
  /\ transcribeCalls' = transcribeCalls

C30_FailedRegenerationChangesNothing ==
  /\ [][RegenerateRequestSettles =>
          /\ ~isRegenerating'
          /\ \/ /\ alerted' \in RegenerateFailures
                /\ regeneratedSuggestions' = regeneratedSuggestions
                /\ selectedTitleIndex' = selectedTitleIndex
                /\ showCustomInstructions' = showCustomInstructions
             \/ /\ alerted' = alerted
                /\ regeneratedSuggestions' = Some(RegeneratedSuggestions(
                     regenerateRequest[1].transcription))
                /\ selectedTitleIndex' = 0
                /\ ~showCustomInstructions']_vars
  /\ [](isRegenerating <=> regenerateRequest # None)

C30_Witness ==
  /\ alerted = "429"
  /\ ~isRegenerating
  /\ regenerateRequest = None
  /\ regeneratedSuggestions # None
  /\ selectedTitleIndex = 2
  /\ showCustomInstructions

\* The documented lifecycle: status, stage, progressPercent.
Lifecycle ==
  { <<"started", "initializing", 0>>,
    <<"in_progress", "extracting_audio", 5>>,
    <<"in_progress", "transcribing", 10>>,
    <<"in_progress", "transcription_complete", 90>>,
    <<"complete", "complete", 100>> }

BucketedAsStepSix(segments, raw) ==
  /\ SameTranscript(segments, raw)
  /\ \A i \in 1..Len(segments) :
       /\ DOMAIN segments[i] =
            {"timestamp", "text", "startSeconds", "endSeconds"}
       /\ segments[i].timestamp =
            <<raw.segments[i].start \div 60, raw.segments[i].start % 60>>

====
